---- MODULE Spec2Model ----
(***************************************************************************)
(* A model of src/ddpm.py: class Diffusion (noise schedule, forward        *)
(* noising, timestep sampling, the reverse sampling loop).                 *)
(*                                                                         *)
(* Real numbers are exact fractions <<num, den>> with den > 0; floating    *)
(* point rounding is not modelled.  Tensors whose values come out of       *)
(* sqrt/randn arithmetic are kept as terms (what was computed from what),  *)
(* so two tensors are equal only when they were computed the same way.     *)
(***************************************************************************)
EXTENDS Integers, Sequences, FiniteSets, TLC

\* ------------------------------------------------------------- bounds
MaxT == 4          \* noise_steps ranges over -1..MaxT
BetaDen == 4       \* beta_start, beta_end range over 0/BetaDen .. BetaDen/BetaDen
MaxN == 2          \* batch sizes n range over 1..MaxN
MaxRand == 2       \* distinct outcomes of one torch.randn / randn_like draw
MaxImg == 1        \* img_size ranges over 1..MaxImg
MaxK == 5          \* postprocessing inputs range over -MaxK/Scale .. MaxK/Scale
Scale == 4         \* grid of the postprocessing inputs: multiples of 1/Scale
MaxSharedT == 3    \* noise_steps ranges over 0..MaxSharedT under concurrent callers

\* ---------------------------------------------------- program constants
Channels == 3      \* torch.randn((n, 3, img_size, img_size))
LowT == 1          \* randint(low=1, ...) and range(1, noise_steps)
ClampHi == 1       \* x.clamp(-1, 1)
Half == 2          \* (x + 1) / 2
Byte == 255        \* x * 255
Uint8 == 256       \* torch.uint8 has 256 values

VARIABLES
  obj,          \* "none" | "ready" | "failed": outcome of Diffusion(...)
  noise_steps, beta_start, beta_end, img_size,   \* self.* configuration
  beta, alpha, alpha_hat,                        \* self.* schedule tensors
  mode,         \* the predictor's mode: "train" | "eval"
  failAt,       \* the timestep at which model(x, t) raises (0: never)
  pc,           \* position of sample(): "idle" | "loop" | "done" | "raised" | "post"
  n, x, pos,    \* locals of sample(): batch size, the sample, loop position
  queries,      \* timesteps passed to model(x, t) by the current call, in order
  reads,        \* schedule indices read by the current call
  entry_mode,   \* the predictor's mode when the current sample() call began
  ret,          \* what the last call returned or raised
  prev,         \* the previous finished sample() call
  calls         \* SpecShared: the call each concurrent caller is in, with its locals

vars == <<obj, noise_steps, beta_start, beta_end, img_size, beta, alpha, alpha_hat,
          mode, failAt, pc, n, x, pos, queries, reads, entry_mode, ret, prev, calls>>

config == <<noise_steps, beta_start, beta_end, img_size>>
schedule == <<beta, alpha, alpha_hat>>
locals == <<n, x, pos, queries, reads, entry_mode>>

\* ---------------------------------------------------------- fractions
Frac(a, d) == <<a, d>>
FracEq(p, q) == p[1] * q[2] = q[1] * p[2]
FracLE(p, q) == p[1] * q[2] <= q[1] * p[2]
FracLT(p, q) == p[1] * q[2] < q[1] * p[2]
FracMul(p, q) == <<p[1] * q[1], p[2] * q[2]>>
OneMinus(p) == <<p[2] - p[1], p[2]>>

\* ------------------------------------------------ the noise schedule
\* torch.linspace(start, end, steps)[idx], idx 0-based, start = a/BetaDen and
\* end = b/BetaDen: step = (end - start) / (steps - 1); the first half counts
\* up from start, the second half counts down from end; steps = 1 gives start.
LinspaceOpenAt(a, b, steps, idx) ==
  Frac(a * steps + (b - a) * idx, BetaDen * steps)

LinspaceAt(a, b, steps, idx) ==
  IF steps = 1 THEN Frac(a, BetaDen)
  ELSE IF idx < steps \div 2
       THEN Frac(a * (steps - 1) + (b - a) * idx, BetaDen * (steps - 1))
       ELSE Frac(b * (steps - 1) - (b - a) * (steps - idx - 1), BetaDen * (steps - 1))

\* prepare_noise_schedule: element t of the tensor is at position t + 1.
prepare_noise_schedule(a, b, steps) ==
  [k \in 1..steps |-> LinspaceAt(a, b, steps, k - 1)]

\* self.alpha = 1 - self.beta
AlphaOf(bs) == [k \in 1..Len(bs) |-> OneMinus(bs[k])]

\* torch.cumprod(self.alpha, dim=0)
RECURSIVE Prod(_, _)
Prod(s, k) == IF k = 1 THEN s[1] ELSE FracMul(Prod(s, k - 1), s[k])
Cumprod(s) == [k \in 1..Len(s) |-> Prod(s, k)]

\* torch.linspace raises for a negative number of steps; nothing else in
\* __init__ inspects its arguments.
InitRaises(steps, a, b) == steps < 0

NoSchedule == <<>>

\* Diffusion.__init__(noise_steps = steps, beta_start = a/BetaDen,
\* beta_end = b/BetaDen, img_size = sz)
DiffusionInit(steps, a, b, sz) ==
  /\ obj = "none"
  /\ noise_steps' = steps /\ beta_start' = a /\ beta_end' = b /\ img_size' = sz
  /\ IF InitRaises(steps, a, b)
     THEN /\ obj' = "failed"
          /\ UNCHANGED schedule
     ELSE /\ obj' = "ready"
          /\ beta' = prepare_noise_schedule(a, b, steps)
          /\ alpha' = AlphaOf(prepare_noise_schedule(a, b, steps))
          /\ alpha_hat' = Cumprod(AlphaOf(prepare_noise_schedule(a, b, steps)))
  /\ UNCHANGED <<mode, failAt, calls, pc, locals, ret, prev>>

NoX == [shape |-> <<>>, x0 |-> 0, steps |-> <<>>]
NoRet == [op |-> "none", ok |-> TRUE, arg |-> <<>>, val |-> <<>>]
NoPrev == [pc |-> "idle", n |-> 0, x |-> NoX, ret |-> NoRet]

NoCalls == <<>>

Idle ==
  /\ pc = "idle" /\ n = 0 /\ x = NoX /\ pos = 0
  /\ queries = <<>> /\ reads = {} /\ ret = NoRet /\ prev = NoPrev
  /\ calls = NoCalls

\* Before construction.
InitSched ==
  /\ obj = "none"
  /\ noise_steps = 0 /\ beta_start = 0 /\ beta_end = 0 /\ img_size = 0
  /\ beta = NoSchedule /\ alpha = NoSchedule /\ alpha_hat = NoSchedule
  /\ mode = "train" /\ entry_mode = "train" /\ failAt = 0
  /\ Idle

NextSched ==
  \E steps \in -1..MaxT, a \in 0..BetaDen, b \in 0..BetaDen, sz \in 1..MaxImg :
     DiffusionInit(steps, a, b, sz)

SpecSched == InitSched /\ [][NextSched]_vars

\* ---------------------------------------------------- the constructed object
\* The state Diffusion(noise_steps = steps, beta_start = a/BetaDen,
\* beta_end = b/BetaDen, img_size = sz) leaves behind, with a predictor in
\* either mode that raises at timestep f (never, when f = 0).
Init ==
  \E steps \in 0..MaxT, sz \in {MaxImg}, m \in {"train", "eval"}, f \in 0..MaxT :
    /\ f < steps \/ f = 0
    /\ obj = "ready"
    /\ noise_steps = steps /\ beta_start = 1 /\ beta_end = BetaDen - 1 /\ img_size = sz
    /\ beta = prepare_noise_schedule(1, BetaDen - 1, steps)
    /\ alpha = AlphaOf(prepare_noise_schedule(1, BetaDen - 1, steps))
    /\ alpha_hat = Cumprod(AlphaOf(prepare_noise_schedule(1, BetaDen - 1, steps)))
    /\ mode = m /\ entry_mode = m /\ failAt = f
    /\ Idle

\* The last finished sample() call for a single image (n = 1), remembered
\* when the next call begins.
Snapshot == IF pc \in {"done", "raised"} /\ n = 1 THEN [pc |-> pc, n |-> n, x |-> x, ret |-> ret]
            ELSE prev

\* ------------------------------------------------------------ noise_images
\* Indexing a tensor of length T with an index tensor: an index in [-T, T)
\* is accepted, a negative one counting from the end; any other raises.
IndexOK(t, T) == -T <= t /\ t < T
Wrap(t, T) == IF t < 0 THEN t + T ELSE t

\* The timestep vectors tried: every vector of one or two timesteps from
\* -(T + 1) .. T.
TVecs(T) == {<<a>> : a \in (-(T + 1))..T}
            \cup {<<a, b>> : a \in (-(T + 1))..T, b \in (-(T + 1))..T}

\* noise_images(x_0, t) with len(t) = batch of x_0; the result is the term
\* sqrt(coef) * x_0 + sqrt(1 - coef) * epsilon, epsilon = randn_like(x_0).
noise_images(t) ==
  /\ obj = "ready" /\ pc # "loop"
  /\ IF \A k \in 1..Len(t) : IndexOK(t[k], noise_steps)
     THEN ret' = [op |-> "noise_images", ok |-> TRUE, arg |-> t,
                  val |-> [coef |-> [k \in 1..Len(t) |->
                                       alpha_hat[Wrap(t[k], noise_steps) + 1]],
                           epsilon |-> [kind |-> "randn", of |-> "x_0"]]]
     ELSE ret' = [op |-> "noise_images", ok |-> FALSE, arg |-> t, val |-> "IndexError"]
  /\ prev' = Snapshot
  /\ pc' = "idle" /\ n' = 0 /\ x' = NoX /\ pos' = 0 /\ queries' = <<>> /\ reads' = {}
  /\ entry_mode' = mode
  /\ UNCHANGED <<obj, config, schedule, mode, failAt, calls>>

\* --------------------------------------------------------- sample_timestep
\* torch.randint(low, high, size): raises unless low < high, else every
\* value is drawn from low .. high - 1.
RandintRaises(low, high) == low >= high
RandintRangeMutant(low, high) == (low - 1)..(high - 1)
RandintRange(low, high) == low..(high - 1)

\* sample_timestep(n = nn)
sample_timestep(nn) ==
  /\ obj = "ready" /\ pc # "loop"
  /\ IF RandintRaises(LowT, noise_steps)
     THEN ret' = [op |-> "sample_timestep", ok |-> FALSE, arg |-> nn, val |-> "RuntimeError"]
     ELSE \E ts \in [1..nn -> RandintRange(LowT, noise_steps)] :
            ret' = [op |-> "sample_timestep", ok |-> TRUE, arg |-> nn, val |-> ts]
  /\ prev' = Snapshot
  /\ pc' = "idle" /\ n' = 0 /\ x' = NoX /\ pos' = 0 /\ queries' = <<>> /\ reads' = {}
  /\ entry_mode' = mode
  /\ UNCHANGED <<obj, config, schedule, mode, failAt, calls>>

\* ------------------------------------------------------------------ sample
Max(a, b) == IF a > b THEN a ELSE b

\* reversed(range(1, T)): T-1, T-2, ..., 1
TimestepsMutant(T) == [k \in 1..Max(T, 0) |-> T - k]
Timesteps(T) == [k \in 1..Max(T - LowT, 0) |-> T - k]

\* noise = torch.randn_like(x) if n > 1 else torch.zeros_like(x)
NoiseMutant(nn, d) == [kind |-> "randn", id |-> d]
Noise(nn, d) == IF nn > 1 THEN [kind |-> "randn", id |-> d]
                ELSE [kind |-> "zeros", id |-> 0]

\* self.alpha[t], self.alpha_hat[t], self.beta[t] for t = i repeated n times
Lookup(arr, i) == arr[i + 1]

\* x = 1/sqrt(alpha) * (x - ((1-alpha)/sqrt(1-alpha_hat)) * model(x, t))
\*     + sqrt(beta) * noise
\* as a term: the operands of the step are appended to the history of x.
Update(xx, i, a, ah, b, z) ==
  [xx EXCEPT !.steps = Append(@, [t |-> i, alpha |-> a, alpha_hat |-> ah,
                                   beta |-> b, noise |-> z])]

\* sample(model, n = nn) up to the loop: model.eval(), x = torch.randn(...)
SampleEnter(nn, d) ==
  /\ obj = "ready" /\ pc # "loop"
  /\ prev' = Snapshot
  /\ entry_mode' = mode
  /\ mode' = "eval"
  /\ n' = nn
  /\ x' = [shape |-> <<nn, Channels, img_size, img_size>>, x0 |-> d, steps |-> <<>>]
  /\ pos' = 1 /\ queries' = <<>> /\ reads' = {}
  /\ ret' = NoRet
  /\ pc' = "loop"
  /\ UNCHANGED <<obj, config, schedule, failAt, calls>>

\* One iteration of the loop, with noise draw d; the exception of a failing
\* model(x, t) leaves sample() at once (there is no handler around the loop).
SampleIter(d) ==
  /\ pc = "loop" /\ pos <= Len(Timesteps(noise_steps))
  /\ LET i == Timesteps(noise_steps)[pos] IN
       /\ queries' = Append(queries, i)
       /\ IF failAt = i
          THEN /\ pc' = "raised"
               /\ ret' = [op |-> "sample", ok |-> FALSE, arg |-> n, val |-> "predict"]
               /\ UNCHANGED <<x, pos, reads>>
          ELSE /\ x' = Update(x, i, Lookup(alpha, i), Lookup(alpha_hat, i),
                              Lookup(beta, i), Noise(n, d))
               /\ reads' = reads \cup {i}
               /\ pos' = pos + 1
               /\ UNCHANGED <<pc, ret>>
  /\ UNCHANGED <<obj, config, schedule, mode, failAt, calls, n, entry_mode, prev>>

\* After the loop: model.train(), clamp / rescale / cast, return.
SampleExit ==
  /\ pc = "loop" /\ pos > Len(Timesteps(noise_steps))
  /\ mode' = "train"
  /\ ret' = [op |-> "sample", ok |-> TRUE, arg |-> n,
             val |-> [shape |-> x.shape, dtype |-> "uint8", from |-> x]]
  /\ pc' = "done"
  /\ UNCHANGED <<obj, config, schedule, failAt, calls, locals, prev>>

Next ==
  \/ \E t \in TVecs(noise_steps) : noise_images(t)
  \/ \E nn \in 1..MaxN : sample_timestep(nn)
  \/ \E nn \in 1..MaxN, d \in 1..MaxRand : SampleEnter(nn, d)
  \/ \E d \in 1..MaxRand : SampleIter(d)
  \/ SampleExit

Spec == Init /\ [][Next]_vars

\* ------------------------------------------------- postprocessing, in numbers
\* A tensor element is k/Scale, or NaN.
Num(k) == [nan |-> FALSE, k |-> k]
NaN == [nan |-> TRUE, k |-> 0]
Elems == {Num(k) : k \in (-MaxK)..MaxK} \cup {NaN}

\* x.clamp(-1, 1) on k/Scale
Clamp(k) == IF k < -(ClampHi * Scale) THEN -(ClampHi * Scale)
            ELSE IF k > ClampHi * Scale THEN ClampHi * Scale ELSE k

\* ((x.clamp(-1, 1) + 1) / 2 * 255).type(torch.uint8) on k/Scale: the cast
\* drops the fraction and keeps eight bits.
QuantizeMutant(k) == (((k + Scale) * Byte) \div (Half * Scale)) % Uint8
Quantize(k) == (((Clamp(k) + Scale) * Byte) \div (Half * Scale)) % Uint8

\* The bytes the cast can produce for one element: NaN passes through clamp
\* and the arithmetic, and casting NaN to an integer type is undefined.
CastSet(v) == IF v.nan THEN 0..(Uint8 - 1) ELSE {Quantize(v.k)}

\* sample() at line 87, the loop and model.train() behind it, with the final
\* x a tensor of numbers: elements a and b alternating.
InitPost ==
  \E nn \in 1..MaxN, sz \in 1..MaxImg, a \in Elems, b \in Elems :
    /\ obj = "ready"
    /\ noise_steps = 1 /\ beta_start = 1 /\ beta_end = BetaDen - 1 /\ img_size = sz
    /\ beta = prepare_noise_schedule(1, BetaDen - 1, 1)
    /\ alpha = AlphaOf(prepare_noise_schedule(1, BetaDen - 1, 1))
    /\ alpha_hat = Cumprod(AlphaOf(prepare_noise_schedule(1, BetaDen - 1, 1)))
    /\ mode = "train" /\ entry_mode = "train" /\ failAt = 0
    /\ pc = "post" /\ n = nn /\ pos = 1 /\ queries = <<>> /\ reads = {}
    /\ x = [shape |-> <<nn, Channels, sz, sz>>,
            data |-> [j \in 1..(nn * Channels * sz * sz) |-> IF j % 2 = 1 THEN a ELSE b]]
    /\ ret = NoRet /\ prev = NoPrev /\ calls = NoCalls

\* x = (x.clamp(-1, 1) + 1) / 2; x = (x * 255).type(torch.uint8); return x
Postprocess ==
  /\ pc = "post"
  /\ \E ua \in CastSet(x.data[1]), ub \in CastSet(x.data[2]) :
       ret' = [op |-> "sample", ok |-> TRUE, arg |-> n,
               val |-> [shape |-> x.shape, dtype |-> "uint8",
                        data |-> [j \in 1..Len(x.data) |->
                                    IF x.data[j].nan
                                    THEN (IF j % 2 = 1 THEN ua ELSE ub)
                                    ELSE Quantize(x.data[j].k)]]]
  /\ pc' = "done"
  /\ UNCHANGED <<obj, config, schedule, mode, failAt, calls, locals, prev>>

NextPost == Postprocess

SpecPost == InitPost /\ [][NextPost]_vars

\* ------------------------------------------- one object, concurrent callers
\* Two callers (threads) share one Diffusion object and one predictor.  Each
\* is in at most one call at a time and has its own frame: the locals of its
\* sample() call.  The object's fields and the predictor's mode are shared.
\* A step of a caller is one whole noise_images or sample_timestep call, or
\* one step of sample() (entry, one iteration, exit); steps of the two callers
\* interleave freely.
Callers == {"c1", "c2"}

\* mid: whether the other caller was inside the loop of sample(), between two
\* iterations, when this call began.
IdleCall == [pc |-> "idle", op |-> "none", ok |-> TRUE, n |-> 0, x |-> NoX,
             pos |-> 0, mid |-> FALSE]

MidLoop(c) ==
  /\ calls[c].pc = "loop"
  /\ Len(calls[c].x.steps) >= 1
  /\ calls[c].pos <= Len(Timesteps(noise_steps))

OtherMid(c) == \E o \in Callers \ {c} : MidLoop(o)

\* The timestep vectors tried by the concurrent callers.
SharedTVecs(T) == {<<a>> : a \in (-(T + 1))..T}

InitShared ==
  \E steps \in 0..MaxSharedT, f \in 0..MaxSharedT :
    /\ f < steps \/ f = 0
    /\ obj = "ready"
    /\ noise_steps = steps /\ beta_start = 1 /\ beta_end = BetaDen - 1 /\ img_size = MaxImg
    /\ beta = prepare_noise_schedule(1, BetaDen - 1, steps)
    /\ alpha = AlphaOf(prepare_noise_schedule(1, BetaDen - 1, steps))
    /\ alpha_hat = Cumprod(AlphaOf(prepare_noise_schedule(1, BetaDen - 1, steps)))
    /\ mode = "train" /\ entry_mode = "train" /\ failAt = f
    /\ pc = "idle" /\ n = 0 /\ x = NoX /\ pos = 0
    /\ queries = <<>> /\ reads = {} /\ ret = NoRet /\ prev = NoPrev
    /\ calls = [c \in Callers |-> IdleCall]

single == <<pc, locals, ret, prev>>

\* Caller c runs noise_images(x_0, t).
CallNoiseImages(c, t) ==
  /\ obj = "ready" /\ calls[c].pc # "loop"
  /\ calls' = [calls EXCEPT ![c] =
                 [IdleCall EXCEPT !.pc = "done", !.op = "noise_images",
                                  !.ok = \A k \in 1..Len(t) : IndexOK(t[k], noise_steps),
                                  !.mid = OtherMid(c)]]
  /\ UNCHANGED <<obj, config, schedule, mode, failAt, single>>

\* Caller c runs sample_timestep(nn).
CallSampleTimestep(c, nn) ==
  /\ obj = "ready" /\ calls[c].pc # "loop"
  /\ calls' = [calls EXCEPT ![c] =
                 [IdleCall EXCEPT !.pc = "done", !.op = "sample_timestep",
                                  !.ok = ~RandintRaises(LowT, noise_steps),
                                  !.n = nn, !.mid = OtherMid(c)]]
  /\ UNCHANGED <<obj, config, schedule, mode, failAt, single>>

\* Caller c enters sample(model, nn): model.eval(), x = torch.randn(...).
CallSampleEnter(c, nn, d) ==
  /\ obj = "ready" /\ calls[c].pc # "loop"
  /\ mode' = "eval"
  /\ calls' = [calls EXCEPT ![c] =
                 [pc |-> "loop", op |-> "sample", ok |-> TRUE, n |-> nn,
                  x |-> [shape |-> <<nn, Channels, img_size, img_size>>,
                         x0 |-> d, steps |-> <<>>],
                  pos |-> 1, mid |-> OtherMid(c)]]
  /\ UNCHANGED <<obj, config, schedule, failAt, single>>

\* A loop iteration that writes the looked-up coefficient back into the
\* shared tensor.
CallSampleIterInPlace(c, d) ==
  /\ calls[c].pc = "loop" /\ calls[c].pos <= Len(Timesteps(noise_steps))
  /\ LET i == Timesteps(noise_steps)[calls[c].pos] IN
       /\ alpha_hat' = [alpha_hat EXCEPT ![i + 1] = OneMinus(@)]
       /\ calls' = [calls EXCEPT ![c].pos = @ + 1,
                                 ![c].x = Update(@, i, Lookup(alpha, i), Lookup(alpha_hat, i),
                                                 Lookup(beta, i), Noise(calls[c].n, d))]
  /\ UNCHANGED <<obj, config, beta, alpha, mode, failAt, single>>

\* Caller c runs one iteration of the loop of its sample() call.
CallSampleIter(c, d) ==
  /\ calls[c].pc = "loop" /\ calls[c].pos <= Len(Timesteps(noise_steps))
  /\ LET i == Timesteps(noise_steps)[calls[c].pos] IN
       IF failAt = i
       THEN calls' = [calls EXCEPT ![c].pc = "raised", ![c].ok = FALSE,
                                   ![c].x = NoX, ![c].pos = 0]
       ELSE calls' = [calls EXCEPT ![c].pos = @ + 1,
                                   ![c].x = Update(@, i, Lookup(alpha, i), Lookup(alpha_hat, i),
                                                   Lookup(beta, i), Noise(calls[c].n, d))]
  /\ UNCHANGED <<obj, config, schedule, mode, failAt, single>>

\* Caller c leaves the loop: model.train(), postprocess, return.  The frame
\* of the call is gone once it has returned or raised.
CallSampleExit(c) ==
  /\ calls[c].pc = "loop" /\ calls[c].pos > Len(Timesteps(noise_steps))
  /\ mode' = "train"
  /\ calls' = [calls EXCEPT ![c].pc = "done", ![c].x = NoX, ![c].pos = 0]
  /\ UNCHANGED <<obj, config, schedule, failAt, single>>

NextShared ==
  \E c \in Callers :
    \/ \E t \in SharedTVecs(noise_steps) : CallNoiseImages(c, t)
    \/ \E nn \in 1..MaxN : CallSampleTimestep(c, nn)
    \/ \E nn \in 1..MaxN, d \in 1..MaxRand : CallSampleEnter(c, nn, d)
    \/ \E d \in 1..MaxRand : CallSampleIter(c, d)
    \/ CallSampleExit(c)

SpecShared == InitShared /\ [][NextShared]_vars

\* =================================================================== claims
InSample == pc \in {"loop", "done", "raised"}

\* C1: when model(x, t) fails inside the loop of sample(), the loop stops at
\* that query, the error reaches the caller with no output, and the predictor
\* is back in the mode it had before the call (not left in inference mode).
C1_RestoredOnError ==
  pc = "raised" =>
    /\ ~ret.ok
    /\ queries[Len(queries)] = failAt
    /\ mode = entry_mode

\* C2: for noise_steps = T >= 1, sample() passes the timesteps T-1, T-2, ..., 1
\* to the predictor, in that order, one per iteration and T-1 of them when the
\* call completes; timestep 0 is never passed and index 0 of the schedule is
\* never read.
C2_Timesteps ==
  (InSample /\ noise_steps >= 1) =>
    /\ \A k \in 1..Len(queries) : queries[k] = noise_steps - k /\ queries[k] >= 1
    /\ Len(queries) <= noise_steps - 1
    /\ 0 \notin reads
    /\ \A k \in 1..Len(x.steps) : x.steps[k].t = noise_steps - k
    /\ pc = "done" => Len(queries) = noise_steps - 1 /\ Len(x.steps) = noise_steps - 1

C2_Witness ==
  pc = "done" /\ noise_steps >= 3 /\ Len(queries) = noise_steps - 1

\* C3: after a sample() call that completes normally the predictor is in the
\* mode it was in just before the call, whichever that was; during the call it
\* is in inference mode before the first query.
C3_ModeRestored ==
  /\ pc = "loop" => mode = "eval"
  /\ pc = "done" => mode = entry_mode

\* C4: constructing the schedule fails, and yields no schedule, whenever
\* noise_steps <= 0, beta_start <= 0, beta_end <= beta_start, or a beta bound
\* lies outside the open interval (0, 1).
InvalidConfig ==
  \/ noise_steps <= 0
  \/ beta_start <= 0
  \/ beta_end <= beta_start
  \/ beta_start >= BetaDen
  \/ beta_end <= 0 \/ beta_end >= BetaDen

C4_ConfigRejected ==
  (obj # "none" /\ InvalidConfig) => (obj = "failed" /\ beta = NoSchedule)

\* C5: noise_images fails, returning no noised sample, whenever some element
\* of the timestep vector is outside [0, T), negative ones included, and
\* succeeds only when every element is in [0, T).
C5_RangeChecked ==
  ret.op = "noise_images" =>
    (ret.ok <=> \A k \in 1..Len(ret.arg) : 0 <= ret.arg[k] /\ ret.arg[k] < noise_steps)

\* C6, as stated: for every n > 0 and every schedule length T, sample_timestep
\* returns exactly n values, each in [1, T-1].
C6_Original ==
  ret.op = "sample_timestep" =>
    /\ ret.ok
    /\ Len(ret.val) = ret.arg
    /\ \A k \in 1..Len(ret.val) : 1 <= ret.val[k] /\ ret.val[k] <= noise_steps - 1

\* C6, amended: for every n > 0 and every T >= 2, sample_timestep returns
\* exactly n values, each in [1, T-1] (never 0, never T or above); for T <= 1
\* the range is empty and the call raises, returning no timestep.
C6_Amended ==
  ret.op = "sample_timestep" =>
    IF noise_steps >= 2
    THEN /\ ret.ok
         /\ Len(ret.val) = ret.arg
         /\ \A k \in 1..Len(ret.val) : 1 <= ret.val[k] /\ ret.val[k] <= noise_steps - 1
    ELSE ~ret.ok

C6_Witness ==
  ret.op = "sample_timestep" /\ ret.ok /\ ret.arg = 2 /\ noise_steps >= 3
  /\ ret.val[1] # ret.val[2]

\* C7: in the loop of sample() the injected noise is the zero array at every
\* iteration when n = 1 and a random draw at every iteration when n > 1; two
\* calls with n = 1 that start from the same x (same schedule, same
\* predictor) go through the same values of x and end the same way.
C7_Noise ==
  InSample =>
    /\ \A k \in 1..Len(x.steps) :
         x.steps[k].noise.kind = (IF n = 1 THEN "zeros" ELSE "randn")
    /\ (n = 1 /\ prev.pc # "idle" /\ prev.n = 1 /\ prev.x.x0 = x.x0) =>
         /\ Len(x.steps) <= Len(prev.x.steps)
         /\ \A k \in 1..Len(x.steps) : x.steps[k] = prev.x.steps[k]
         /\ pc \in {"done", "raised"} => (pc = prev.pc /\ x = prev.x /\ ret = prev.ret)

C7_Witness ==
  /\ pc = "done" /\ n = 1 /\ Len(x.steps) >= 2
  /\ prev.pc = "done" /\ prev.n = 1 /\ prev.x.x0 = x.x0

\* C8, as stated: for every valid configuration the schedule has exactly T
\* entries, beta is non-decreasing, beta[0] = beta_start, beta[T-1] = beta_end
\* (T = 1 included), and alpha[t] = 1 - beta[t] at every index.
ValidConfig ==
  /\ noise_steps > 0
  /\ 0 < beta_start /\ beta_start < beta_end /\ beta_end < BetaDen

ScheduleShape ==
  /\ Len(beta) = noise_steps /\ Len(alpha) = noise_steps /\ Len(alpha_hat) = noise_steps
  /\ \A k \in 1..(noise_steps - 1) : FracLE(beta[k], beta[k + 1])
  /\ FracEq(beta[1], Frac(beta_start, BetaDen))
  /\ \A k \in 1..noise_steps :
       alpha[k][1] * beta[k][2] + beta[k][1] * alpha[k][2] = alpha[k][2] * beta[k][2]

C8_Original ==
  (obj = "ready" /\ ValidConfig) =>
    /\ ScheduleShape
    /\ FracEq(beta[noise_steps], Frac(beta_end, BetaDen))

\* C8, amended: as stated, except that beta[T-1] = beta_end holds for T >= 2;
\* for T = 1 the single entry is beta_start.
C8_Amended ==
  (obj = "ready" /\ ValidConfig) =>
    /\ ScheduleShape
    /\ noise_steps >= 2 => FracEq(beta[noise_steps], Frac(beta_end, BetaDen))
    /\ noise_steps = 1 => ~FracEq(beta[noise_steps], Frac(beta_end, BetaDen))

C8_Witness ==
  obj = "ready" /\ ValidConfig /\ noise_steps >= 3 /\ FracLT(beta[1], beta[2])

\* C9: the output of sample() is the final x clamped to [-1, 1], mapped by
\* (x+1)/2, scaled by 255 and cut to an unsigned byte: every element is an
\* integer in [0, 255], the shape is (n, channels, img_size, img_size), -1 and
\* below give 0, 1 and above give 255.
C9_Postprocess ==
  (pc = "done" /\ ret.op = "sample" /\ ret.ok) =>
    /\ ret.val.shape = <<n, Channels, img_size, img_size>>
    /\ Len(ret.val.data) = n * Channels * img_size * img_size
    /\ ret.val.dtype = "uint8"
    /\ \A j \in 1..Len(ret.val.data) :
         LET out == ret.val.data[j]
             v == x.data[j]
             c == IF v.k < -Scale THEN -Scale ELSE IF v.k > Scale THEN Scale ELSE v.k
         IN  /\ out \in 0..255
             /\ ~v.nan =>
                  /\ out * 2 * Scale <= 255 * (c + Scale)
                  /\ 255 * (c + Scale) < (out + 1) * 2 * Scale
                  /\ v.k <= -Scale => out = 0
                  /\ v.k >= Scale => out = 255

C9_Witness ==
  /\ pc = "done" /\ ret.op = "sample" /\ n = 2
  /\ x.data[1] = Num(MaxK) /\ ret.val.data[1] = 255
  /\ x.data[2] = Num(1) /\ ret.val.data[2] = (255 * (Scale + 1)) \div (2 * Scale)

\* C10: after construction no call of noise_images, sample_timestep or sample,
\* by either caller and however the callers' steps interleave, changes beta,
\* alpha, alpha_hat or noise_steps; an iteration of the loop of sample()
\* reassigns only that call's sample x (and moves its loop on): the object, the
\* predictor's mode, the call's batch size and the other caller's frame stay
\* as they were.
C10_ScheduleFrozen ==
  [][obj = "ready" =>
       /\ beta' = beta /\ alpha' = alpha /\ alpha_hat' = alpha_hat
       /\ noise_steps' = noise_steps /\ obj' = obj
       /\ \A c \in Callers :
            (calls[c].pc = "loop" /\ calls'[c].pc = "loop" /\ calls'[c] # calls[c]) =>
              /\ UNCHANGED <<config, mode>>
              /\ calls'[c].n = calls[c].n
              /\ calls'[c].x.x0 = calls[c].x.x0 /\ calls'[c].x.shape = calls[c].x.shape
              /\ \A o \in Callers \ {c} : calls'[o] = calls[o]]_vars

\* Both callers are inside sample() at once, each with iterations done and
\* iterations to go, the second having entered between two iterations of the
\* first; the schedule is still the one __init__ built.
C10_Witness ==
  /\ MidLoop("c1")
  /\ MidLoop("c2") /\ calls["c2"].mid
  /\ calls["c1"].n # calls["c2"].n
  /\ beta = prepare_noise_schedule(beta_start, beta_end, noise_steps)
  /\ alpha = AlphaOf(beta) /\ alpha_hat = Cumprod(alpha)

====
